---- MODULE Spec2Model ----
(***************************************************************************)
(* Model of felicific_calculus.py: Actor (one affected party), Act (the    *)
(* parties of one action) and ActionSelector (named acts and their         *)
(* ranking).                                                               *)
(*                                                                         *)
(* Numbers.  The program computes on floats.  The model computes on the   *)
(* integers and draws its inputs from values on which the float           *)
(* arithmetic of the program is exact (small dyadic rationals):           *)
(*   - certainty, fecundity, purity and selfInterestScale are given in    *)
(*     halves: the model value 1 is the program value 0.5, 2 is 1.0;      *)
(*   - the adjusted propinquity is in halves as well;                     *)
(*   - so a consequence term is in quarters, and an Act's moral value,    *)
(*     a term times a weight in halves, is in eighths.                    *)
(* An unset scale (None) is the empty sequence, a set scale s is <<s>>.   *)
(***************************************************************************)
EXTENDS Integers, Sequences, FiniteSets, TLC

\* ------------------------------------------------------------------ bounds
\* largest intensity of the bounded Actor inputs
MaxMag == 2
\* most parties the bounded caller adds to one Act
MaxActors == 2
\* most consequence terms the bounded caller lets one Actor reach
MaxConsequences == 4
\* most acts the bounded caller adds to the ActionSelector
MaxHeld == 3

None == <<>>
Some(s) == <<s>>

\* ------------------------------------------------------------------- Actor

\* math.pow(propinquity, .1) on the propinquities of the model, where the
\* float result is exact: pow(1, .1) = 1.0 and pow(1024, .1) = 2.0
Pow(propinquity) == IF propinquity = 1024 THEN 2 ELSE 1

\* 1 / math.pow(propinquity, .1) if propinquity != 0 else 1     (in halves)
AdjustedPropinquity(propinquity) ==
    IF propinquity # 0 THEN 2 \div Pow(propinquity) ELSE 2

\* the first-order term appended by addConsequence                (quarters)
FirstOrder(a) ==
    IF a.isPleasure
    THEN a.certainty * (a.intensity * a.duration * AdjustedPropinquity(a.propinquity) * a.extent)
    ELSE (-1) * a.certainty * (a.intensity * a.duration * AdjustedPropinquity(a.propinquity) * a.extent)

\* a faulty variant: the purity term of a pleasure decays with p_propinquity
SecondOrderOwnDecay(a) ==
    IF a.isPleasure
    THEN LET f_adjusted_propinquity == AdjustedPropinquity(a.f_propinquity)
             p_adjusted_propinquity == AdjustedPropinquity(a.p_propinquity)
         IN  (IF a.fecundity # 0
              THEN << a.fecundity * (a.f_intensity * a.f_duration * f_adjusted_propinquity * a.f_extent) >>
              ELSE << >>)
             \o
             (IF a.purity # 0
              THEN << (-1) * a.purity * (a.p_intensity * a.p_duration * p_adjusted_propinquity * a.p_extent) >>
              ELSE << >>)
    ELSE LET p_adjusted_propinquity == AdjustedPropinquity(a.p_propinquity)
         IN  (IF a.fecundity # 0
              THEN << (-1) * a.fecundity * (a.f_intensity * a.f_duration * p_adjusted_propinquity * a.f_extent) >>
              ELSE << >>)
             \o
             (IF a.purity # 0
              THEN << a.purity * (a.p_intensity * a.p_duration * p_adjusted_propinquity * a.p_extent) >>
              ELSE << >>)

\* the second-order terms appended by addConsequence, in order    (quarters)
SecondOrder(a) ==
    IF a.isPleasure
    THEN LET f_adjusted_propinquity == AdjustedPropinquity(a.f_propinquity)
         IN  (IF a.fecundity # 0
              THEN << a.fecundity * (a.f_intensity * a.f_duration * f_adjusted_propinquity * a.f_extent) >>
              ELSE << >>)
             \o
             (IF a.purity # 0
              THEN << (-1) * a.purity * (a.p_intensity * a.p_duration * f_adjusted_propinquity * a.p_extent) >>
              ELSE << >>)
    ELSE LET p_adjusted_propinquity == AdjustedPropinquity(a.p_propinquity)
         IN  (IF a.fecundity # 0
              THEN << (-1) * a.fecundity * (a.f_intensity * a.f_duration * p_adjusted_propinquity * a.f_extent) >>
              ELSE << >>)
             \o
             (IF a.purity # 0
              THEN << a.purity * (a.p_intensity * a.p_duration * p_adjusted_propinquity * a.p_extent) >>
              ELSE << >>)

\* Actor.addConsequence: the consequences after the call
AddConsequence(consequences, a) ==
    Append(consequences, FirstOrder(a)) \o SecondOrder(a)

\* Actor.__init__: an empty list, then addConsequence
NewActor(a) == [consequences |-> AddConsequence(<< >>, a)]

RECURSIVE SumSeq(_)
\* sum(list)
SumSeq(s) == IF s = << >> THEN 0 ELSE Head(s) + SumSeq(Tail(s))

\* Actor.getMoralValue
ActorMoralValue(actor) == SumSeq(actor.consequences)

\* Actor.getNegativeMoralValue: sum([x for x in consequences if x < 0])
ActorNegativeMoralValue(actor) ==
    SumSeq(SelectSeq(actor.consequences, LAMBDA x : x < 0))

\* keyword defaults of Actor.__init__ / Act.createActor
Party(isPleasure, intensity, duration, certainty, propinquity, fecundity, purity, extent) ==
    [isPleasure |-> isPleasure, intensity |-> intensity, duration |-> duration,
     certainty |-> certainty, propinquity |-> propinquity, fecundity |-> fecundity,
     purity |-> purity, extent |-> extent,
     f_intensity |-> 0, f_duration |-> 0, f_propinquity |-> 0, f_extent |-> 0,
     p_intensity |-> 0, p_duration |-> 0, p_propinquity |-> 0, p_extent |-> 0]


\* --------------------------------------------------------------------- Act

\* Act.__init__
NewAct(selfInterestScale) ==
    [selfInterestScale |-> selfInterestScale, actors |-> << >>]

\* a faulty variant: consequences is one list shared by the Actors of the Act
\* (a class attribute), so the new terms show in every earlier Actor too
ActCreateActorShared(act, a, isDecisionMaker) ==
    LET shared == [i \in 1..Len(act.actors) |->
                      [act.actors[i] EXCEPT !.actor.consequences = AddConsequence(@, a)]]
    IN  [act EXCEPT !.actors =
            Append(shared, [actor |-> NewActor(a), isDecisionMaker |-> isDecisionMaker])]

\* Act.createActor: append (Actor(...), True if isDecisionMaker else False)
ActCreateActor(act, a, isDecisionMaker) ==
    [act EXCEPT !.actors =
        Append(@, [actor |-> NewActor(a), isDecisionMaker |-> isDecisionMaker])]

\* a faulty variant: a scale the Act already carries is kept
ActSetSelfInterestScaleIfUnset(act, selfInterestScale) ==
    IF act.selfInterestScale = None
    THEN [act EXCEPT !.selfInterestScale = selfInterestScale]
    ELSE act

\* Act.setSelfInterestScale: stores the value as given, None included
ActSetSelfInterestScale(act, selfInterestScale) ==
    [act EXCEPT !.selfInterestScale = selfInterestScale]

\* a faulty variant: the decision-maker's weight is given to every party
WeighedAllAsSelf(act, p, value) ==
    IF act.selfInterestScale # None
    THEN value * act.selfInterestScale[1]
    ELSE value * 2

\* one round of the loop of Act.getMoralValue / getNegativeMoralValue: what
\* party p adds to totalMoralValue, `value` being the party's own value
\* (quarters); the result is in eighths, so the unweighted value counts twice
Weighed(act, p, value) ==
    IF act.selfInterestScale # None
    THEN IF p.isDecisionMaker
         THEN value * act.selfInterestScale[1]
         ELSE value * (2 - act.selfInterestScale[1])
    ELSE value * 2

RECURSIVE ActMoralValueLoop(_, _, _)
\* the loop of Act.getMoralValue from party i on
ActMoralValueLoop(act, i, totalMoralValue) ==
    IF i > Len(act.actors) THEN totalMoralValue
    ELSE ActMoralValueLoop(act, i + 1,
            totalMoralValue + Weighed(act, act.actors[i], ActorMoralValue(act.actors[i].actor)))

\* Act.getMoralValue                                               (eighths)
ActMoralValue(act) == ActMoralValueLoop(act, 1, 0)

RECURSIVE ActNegativeMoralValueLoop(_, _, _)
\* the loop of Act.getNegativeMoralValue from party i on
ActNegativeMoralValueLoop(act, i, totalMoralValue) ==
    IF i > Len(act.actors) THEN totalMoralValue
    ELSE ActNegativeMoralValueLoop(act, i + 1,
            totalMoralValue + Weighed(act, act.actors[i], ActorNegativeMoralValue(act.actors[i].actor)))

\* Act.getNegativeMoralValue                                       (eighths)
ActNegativeMoralValue(act) == ActNegativeMoralValueLoop(act, 1, 0)

\* Act.hasActMaker
HasActMaker(act) == \E i \in 1..Len(act.actors) : act.actors[i].isDecisionMaker

\* ---------------------------------------------------------- ActionSelector

\* a faulty variant: max keeps the last of the entries with the greatest key
MaxIndexLast(keys) ==
    LET RECURSIVE Scan(_, _)
        Scan(j, best) == IF j > Len(keys) THEN best
                         ELSE Scan(j + 1, IF keys[j] >= keys[best] THEN j ELSE best)
    IN  Scan(2, 1)

\* Python's max(iterable, key=...) over a non-empty list, as an index: the
\* scan keeps the entry seen first among those with the greatest key
MaxIndex(keys) ==
    LET RECURSIVE Scan(_, _)
        Scan(j, best) == IF j > Len(keys) THEN best
                         ELSE Scan(j + 1, IF keys[j] > keys[best] THEN j ELSE best)
    IN  Scan(2, 1)

\* the keys of max(self.acts, key=lambda x: x[1].getMoralValue())
MoralValues(acts) == [i \in 1..Len(acts) |-> ActMoralValue(acts[i].act)]

\* the keys of max(self.acts, key=lambda x: x[1].getNegativeMoralValue())
NegativeMoralValues(acts) == [i \in 1..Len(acts) |-> ActNegativeMoralValue(acts[i].act)]

\* a faulty variant: the loop stops at the first name it appends
ListOfActsFirstOnly(acts, keys, best) == << acts[best].name >>

\* the loop of getListOfActsWith...: the names, in order, of the entries
\* whose key equals the key of the best act
ListOfActs(acts, keys, best) ==
    LET RECURSIVE Loop(_, _)
        Loop(i, listOfActs) ==
            IF i > Len(acts) THEN listOfActs
            ELSE Loop(i + 1, IF keys[i] = keys[best]
                             THEN Append(listOfActs, acts[i].name)
                             ELSE listOfActs)
    IN  Loop(1, << >>)

\* random.shuffle(list): every order of the list can come out
Shuffle(list) ==
    { [i \in 1..Len(list) |-> list[p[i]]] : p \in Permutations(1..Len(list)) }

\* a faulty variant: the `not` of the test is missing
WarningsForActMakers(acts) ==
    SelectSeq([i \in 1..Len(acts) |-> IF HasActMaker(acts[i].act) THEN acts[i].name ELSE ""],
              LAMBDA n : n # "")

\* the first loop of ActionSelector.setSelfInterestScale: one line for each
\* act, in order, for which hasActMaker() is false
Warnings(acts) ==
    LET RECURSIVE Loop(_, _)
        Loop(i, printed) ==
            IF i > Len(acts) THEN printed
            ELSE Loop(i + 1, IF ~HasActMaker(acts[i].act)
                             THEN Append(printed, acts[i].name)
                             ELSE printed)
    IN  Loop(1, << >>)

\* a faulty variant: the loop starts at the second act
PushScaleSkipsFirst(acts, selfInterestScale) ==
    [i \in 1..Len(acts) |->
        IF i = 1 THEN acts[i]
        ELSE [acts[i] EXCEPT !.act = ActSetSelfInterestScale(@, selfInterestScale)]]

\* the second loop of ActionSelector.setSelfInterestScale
PushScale(acts, selfInterestScale) ==
    [i \in 1..Len(acts) |->
        [acts[i] EXCEPT !.act = ActSetSelfInterestScale(@, selfInterestScale)]]

\* a faulty variant: the upper bound is tested with >=
OutOfRangeStrict(selfInterestScale) == selfInterestScale >= 2 \/ selfInterestScale < 0

\* the test of ActionSelector.setSelfInterestScale that raises ValueError
\* (the scale is in halves: 2 is 1.0)
OutOfRange(selfInterestScale) == selfInterestScale > 2 \/ selfInterestScale < 0


\* ------------------------------------------------------------------- state

VARIABLES
    args,               \* the arguments the caller gives to Actor(...)
    actor,              \* that Actor: << >> before it is constructed, then <<actor>>
    act,                \* the caller's Act: << >> before it is constructed, then <<act>>
    acts,               \* ActionSelector.acts: a list of [name, act]
    selfInterestScale,  \* ActionSelector.selfInterestScale
    warnings,           \* the names in the warning lines printed by the last call
    lastCall            \* the last call and what it returned or raised

vars == <<args, actor, act, acts, selfInterestScale, warnings, lastCall>>

\* a call that returns None and raises nothing
Call(op) ==
    [op |-> op, raised |-> "", name |-> "", names |-> << >>, value |-> 0, flag |-> FALSE]

\* ------------------------------------------------------------------ inputs

\* the propinquities of the model: now, and two that pow(., .1) maps exactly
Propinquities == {0, 1, 1024}

\* the bounded arguments of Actor(...) of the Actor specification
ActorArgs ==
    [isPleasure : BOOLEAN, intensity : 0..MaxMag, duration : {2}, certainty : {1, 2},
     propinquity : Propinquities, fecundity : {0, 1, 2}, purity : {0, 1, 2},
     extent : {1, 3},
     f_intensity : {1, 2}, f_duration : {1}, f_propinquity : {0, 1024}, f_extent : {1},
     p_intensity : {3}, p_duration : {1}, p_propinquity : {1, 1024}, p_extent : {2}]

\* the arguments of the first consequence of the scenario of spec section 8:
\* a certain pleasure of intensity 5, duration 2, for 9
ScenarioPleasure == Party(TRUE, 5, 2, 2, 1, 0, 0, 9)

\* the second: a pain of intensity 10, duration 1, certainty 0.5, for 9
ScenarioPain == Party(FALSE, 10, 1, 1, 1, 0, 0, 9)

\* a distant pleasure with both second-order consequences
MixedPleasure ==
    [Party(TRUE, 3, 1, 2, 1024, 1, 2, 1) EXCEPT
        !.f_intensity = 1, !.f_duration = 1, !.f_propinquity = 0, !.f_extent = 1,
        !.p_intensity = 1, !.p_duration = 1, !.p_propinquity = 1024, !.p_extent = 1]

\* the arguments the caller gives to createActor in the Act specification
PartyInputs == {ScenarioPleasure, ScenarioPain, MixedPleasure}

\* the scales given to Act(...) and Act.setSelfInterestScale, which check nothing
ActScaleInputs == {None} \cup {Some(s) : s \in -1..3}

\* the scales given to ActionSelector.setSelfInterestScale: -0.5, 0, 0.5, 1, 1.5
ScaleInputs == -1..3

\* the scales an Act given to addAct may carry
AddedScaleInputs == {None, Some(1)}

\* the names the caller gives to its acts, one name for one act
NamePool == << "a", "b", "c", "d", "e" >>
Names == { NamePool[i] : i \in 1..MaxHeld }

\* Act() with one createActor call for each <<arguments, isDecisionMaker>>
ActOf(scale, parties) ==
    LET RECURSIVE Build(_, _)
        Build(a, i) == IF i > Len(parties) THEN a
                       ELSE Build(ActCreateActor(a, parties[i][1], parties[i][2]), i + 1)
    IN  Build(NewAct(scale), 1)

\* the parties of the acts the caller adds to the ActionSelector: values
\* 10, 25 and 25 unweighted, the last one with a pain in it
ActPartyInputs ==
    { << <<Party(TRUE, 5, 2, 2, 1, 0, 0, 1), FALSE>> >>,
      << <<Party(TRUE, 5, 5, 2, 1, 0, 0, 1), TRUE>> >>,
      << <<Party(TRUE, 5, 6, 2, 1, 0, 0, 1), FALSE>>,
         <<Party(FALSE, 10, 1, 1, 1, 0, 0, 1), TRUE>> >> }

\* -------------------------------------------------------------------- Init

\* the ActionSelector after __init__; no Actor and no Act of the caller yet
Init ==
    /\ args = ScenarioPleasure
    /\ actor = << >>
    /\ act = << >>
    /\ acts = << >>
    /\ selfInterestScale = None
    /\ warnings = << >>
    /\ lastCall = Call("__init__")

\* the same, for every bounded choice of the arguments of Actor(...)
InitActor ==
    /\ args \in ActorArgs
    /\ actor = << >>
    /\ act = << >>
    /\ acts = << >>
    /\ selfInterestScale = None
    /\ warnings = << >>
    /\ lastCall = Call("__init__")

\* ----------------------------------------------------------- Actor actions

\* Actor(args)
ActorInit ==
    /\ actor = << >>
    /\ actor' = << NewActor(args) >>
    /\ warnings' = << >>
    /\ lastCall' = Call("Actor")
    /\ UNCHANGED <<args, act, acts, selfInterestScale>>

\* actor.getMoralValue()
ActorGetMoralValue ==
    /\ actor # << >>
    /\ warnings' = << >>
    /\ lastCall' = [Call("Actor.getMoralValue") EXCEPT !.value = ActorMoralValue(actor[1])]
    /\ UNCHANGED <<args, actor, act, acts, selfInterestScale>>

\* actor.getNegativeMoralValue()
ActorGetNegativeMoralValue ==
    /\ actor # << >>
    /\ warnings' = << >>
    /\ lastCall' = [Call("Actor.getNegativeMoralValue") EXCEPT
                        !.value = ActorNegativeMoralValue(actor[1])]
    /\ UNCHANGED <<args, actor, act, acts, selfInterestScale>>

NextActor ==
    \/ ActorInit
    \/ ActorGetMoralValue
    \/ ActorGetNegativeMoralValue

SpecActor == InitActor /\ [][NextActor]_vars


\* ------------------------------------------------------------- Act actions

\* act = Act(scale)
ActInit(scale) ==
    /\ act = << >>
    /\ act' = << NewAct(scale) >>
    /\ warnings' = << >>
    /\ lastCall' = Call("Act")
    /\ UNCHANGED <<args, actor, acts, selfInterestScale>>

\* act.createActor(a..., isDecisionMaker=isDecisionMaker)
CreateActor(a, isDecisionMaker) ==
    /\ act # << >>
    /\ Len(act[1].actors) < MaxActors
    /\ act' = << ActCreateActor(act[1], a, isDecisionMaker) >>
    /\ warnings' = << >>
    /\ lastCall' = Call("Act.createActor")
    /\ UNCHANGED <<args, actor, acts, selfInterestScale>>

\* act.setSelfInterestScale(scale)
SetActScale(scale) ==
    /\ act # << >>
    /\ act' = << ActSetSelfInterestScale(act[1], scale) >>
    /\ warnings' = << >>
    /\ lastCall' = Call("Act.setSelfInterestScale")
    /\ UNCHANGED <<args, actor, acts, selfInterestScale>>

\* act.getMoralValue()
ActGetMoralValue ==
    /\ act # << >>
    /\ warnings' = << >>
    /\ lastCall' = [Call("Act.getMoralValue") EXCEPT !.value = ActMoralValue(act[1])]
    /\ UNCHANGED <<args, actor, act, acts, selfInterestScale>>

\* act.getNegativeMoralValue()
ActGetNegativeMoralValue ==
    /\ act # << >>
    /\ warnings' = << >>
    /\ lastCall' = [Call("Act.getNegativeMoralValue") EXCEPT
                        !.value = ActNegativeMoralValue(act[1])]
    /\ UNCHANGED <<args, actor, act, acts, selfInterestScale>>

\* act.hasActMaker()
ActHasActMaker ==
    /\ act # << >>
    /\ warnings' = << >>
    /\ lastCall' = [Call("Act.hasActMaker") EXCEPT !.flag = HasActMaker(act[1])]
    /\ UNCHANGED <<args, actor, act, acts, selfInterestScale>>

\* act.getActors()[i - 1][0].addConsequence(a...): addConsequence is a public
\* method of Actor, and the caller may call it again on a constructed Actor
ActorAddConsequence(i, a) ==
    /\ act # << >>
    /\ i \in 1..Len(act[1].actors)
    /\ Len(AddConsequence(act[1].actors[i].actor.consequences, a)) <= MaxConsequences
    /\ act' = << [act[1] EXCEPT !.actors[i].actor.consequences = AddConsequence(@, a)] >>
    /\ warnings' = << >>
    /\ lastCall' = Call("Actor.addConsequence")
    /\ UNCHANGED <<args, actor, acts, selfInterestScale>>

NextAct ==
    \/ \E scale \in ActScaleInputs : ActInit(scale)
    \/ \E a \in PartyInputs, isDecisionMaker \in BOOLEAN : CreateActor(a, isDecisionMaker)
    \/ \E scale \in ActScaleInputs : SetActScale(scale)
    \/ ActGetMoralValue
    \/ ActGetNegativeMoralValue
    \/ ActHasActMaker
    \/ \E i \in 1..MaxActors : ActorAddConsequence(i, ScenarioPain)

SpecAct == Init /\ [][NextAct]_vars


\* -------------------------------------------------- ActionSelector actions

\* a variant: the test reads the attribute selfInterestScale
ScaleAttributeIsNotNone == selfInterestScale # None

\* the test `self.setSelfInterestScale is not None` of addAct: it names the
\* bound method, not the attribute selfInterestScale, and a method is never None
SetSelfInterestScaleIsNotNone == TRUE

\* selector.addAct(actName, a)
AddAct(actName, a) ==
    /\ Len(acts) < MaxHeld
    /\ LET given == IF SetSelfInterestScaleIsNotNone
                    THEN ActSetSelfInterestScale(a, selfInterestScale)
                    ELSE a
       IN  acts' \in Shuffle(Append(acts, [name |-> actName, act |-> given]))
    /\ warnings' = << >>
    /\ lastCall' = Call("addAct")
    /\ UNCHANGED <<args, actor, act, selfInterestScale>>

\* selector.setSelfInterestScale(scale)
SetSelfInterestScale(scale) ==
    IF OutOfRange(scale)
    THEN /\ warnings' = << >>
         /\ lastCall' = [Call("setSelfInterestScale") EXCEPT !.raised = "ValueError"]
         /\ UNCHANGED <<args, actor, act, acts, selfInterestScale>>
    ELSE /\ warnings' = Warnings(acts)
         /\ selfInterestScale' = Some(scale)
         /\ acts' = PushScale(acts, Some(scale))
         /\ lastCall' = Call("setSelfInterestScale")
         /\ UNCHANGED <<args, actor, act>>

\* what a query returns: max() raises ValueError on an empty list
BestName(op, keys) ==
    IF acts = << >>
    THEN [Call(op) EXCEPT !.raised = "ValueError"]
    ELSE [Call(op) EXCEPT !.name = acts[MaxIndex(keys)].name]

\* the same for the list queries
BestNames(op, keys) ==
    IF acts = << >>
    THEN [Call(op) EXCEPT !.raised = "ValueError"]
    ELSE [Call(op) EXCEPT !.names = ListOfActs(acts, keys, MaxIndex(keys))]

\* a faulty variant: the query shuffles the list before it looks for the best
GetActWithHighestValueShuffling ==
    /\ warnings' = << >>
    /\ acts' \in Shuffle(acts)
    /\ lastCall' = IF acts = << >>
                   THEN [Call("getActWithHighestValue") EXCEPT !.raised = "ValueError"]
                   ELSE [Call("getActWithHighestValue") EXCEPT
                            !.name = acts'[MaxIndex(MoralValues(acts'))].name]
    /\ UNCHANGED <<args, actor, act, selfInterestScale>>

\* selector.getActWithHighestValue()
GetActWithHighestValue ==
    /\ warnings' = << >>
    /\ lastCall' = BestName("getActWithHighestValue", MoralValues(acts))
    /\ UNCHANGED <<args, actor, act, acts, selfInterestScale>>

\* selector.getActWithLeastNegativeValue()
GetActWithLeastNegativeValue ==
    /\ warnings' = << >>
    /\ lastCall' = BestName("getActWithLeastNegativeValue", NegativeMoralValues(acts))
    /\ UNCHANGED <<args, actor, act, acts, selfInterestScale>>

\* selector.getListOfActsWithHighestValue()
GetListOfActsWithHighestValue ==
    /\ warnings' = << >>
    /\ lastCall' = BestNames("getListOfActsWithHighestValue", MoralValues(acts))
    /\ UNCHANGED <<args, actor, act, acts, selfInterestScale>>

\* selector.getListOfActsWithLeastNegativeValue()
GetListOfActsWithLeastNegativeValue ==
    /\ warnings' = << >>
    /\ lastCall' = BestNames("getListOfActsWithLeastNegativeValue", NegativeMoralValues(acts))
    /\ UNCHANGED <<args, actor, act, acts, selfInterestScale>>

\* the names of the held acts
HeldNames == { acts[i].name : i \in 1..Len(acts) }

Next ==
    \/ \E actName \in Names \ HeldNames, scale \in AddedScaleInputs, parties \in ActPartyInputs :
            AddAct(actName, ActOf(scale, parties))
    \/ \E scale \in ScaleInputs : SetSelfInterestScale(scale)
    \/ GetActWithHighestValue
    \/ GetActWithLeastNegativeValue
    \/ GetListOfActsWithHighestValue
    \/ GetListOfActsWithLeastNegativeValue

Spec == Init /\ [][Next]_vars


\* --------------------------------------------------- claims: ActionSelector

\* the Acts the bounded caller gives to addAct
ActInputs == { ActOf(scale, parties) : scale \in AddedScaleInputs, parties \in ActPartyInputs }

\* the held Act of that name (the caller gives each act a name of its own)
Held(list, actName) == list[CHOOSE i \in 1..Len(list) : list[i].name = actName].act

\* the names in a list of [name, act]
NamesOf(list) == { list[i].name : i \in 1..Len(list) }

\* C1 as the spec states it: an Act added after setSelfInterestScale(s) does
\* not receive the selector's scale: addAct(name, a) leaves a's own
\* selfInterestScale as it was, so the Act held under that name afterwards is
\* a as given.
C1_AddActLeavesScale ==
    [][\A actName \in Names, a \in ActInputs :
          (selfInterestScale # None /\ AddAct(actName, a) /\ actName \notin NamesOf(acts))
              => Held(acts', actName) = a]_vars

\* C1 (amended): addAct(name, a) sets a's selfInterestScale to the selector's
\* current selfInterestScale, unset when the selector's is unset, whatever a
\* carried before: after every addAct the list holds the acts it held before,
\* unchanged, and one more, which carries the selector's scale and the parties
\* of an Act the caller gave; the selector's own scale is as before.
C1_AddActGivesSelectorScale ==
    [][lastCall'.op = "addAct" =>
          /\ selfInterestScale' = selfInterestScale
          /\ Len(acts') = Len(acts) + 1
          /\ \A i \in 1..Len(acts) :
                acts[i].name \in NamesOf(acts') /\ Held(acts', acts[i].name) = acts[i].act
          /\ \E actName \in NamesOf(acts') \ NamesOf(acts) :
                /\ Held(acts', actName).selfInterestScale = selfInterestScale
                /\ \E a \in ActInputs : Held(acts', actName).actors = a.actors]_vars

\* an act was added after setSelfInterestScale(0.5) and carries 0.5
C1_Witness ==
    /\ lastCall.op = "addAct"
    /\ selfInterestScale = Some(1)
    /\ Len(acts) = 2
    /\ \A i \in 1..Len(acts) : acts[i].act.selfInterestScale = Some(1)

\* C2: setSelfInterestScale(s) succeeds exactly when 0 <= s <= 1 (2 halves);
\* otherwise it raises ValueError and leaves the selector's scale and the
\* held acts, their scales included, as they were.
C2_ScaleDomain ==
    [][\A scale \in ScaleInputs :
          SetSelfInterestScale(scale) =>
              IF 0 <= scale /\ scale <= 2
              THEN lastCall'.raised = ""
              ELSE /\ lastCall'.raised = "ValueError"
                   /\ acts' = acts
                   /\ selfInterestScale' = selfInterestScale]_vars

\* a call was refused on a selector that holds acts and has a scale
C2_Witness ==
    /\ lastCall.op = "setSelfInterestScale"
    /\ lastCall.raised = "ValueError"
    /\ Len(acts) >= 2
    /\ selfInterestScale = Some(2)

\* C3: when setSelfInterestScale(s), s in [0, 1], returns, the selector's
\* scale is s and so is the scale of every held act; names, parties and the
\* order of the held acts are as before.
C3_ScalePushed ==
    [][\A scale \in 0..2 :
          SetSelfInterestScale(scale) =>
              /\ selfInterestScale' = Some(scale)
              /\ Len(acts') = Len(acts)
              /\ \A i \in 1..Len(acts) :
                    /\ acts'[i].name = acts[i].name
                    /\ acts'[i].act.actors = acts[i].act.actors
                    /\ acts'[i].act.selfInterestScale = Some(scale)]_vars

\* a successful call on a selector holding three acts
C3_Witness ==
    /\ lastCall.op = "setSelfInterestScale"
    /\ lastCall.raised = ""
    /\ Len(acts) = 3
    /\ selfInterestScale = Some(0)
    /\ \A i \in 1..Len(acts) : acts[i].act.selfInterestScale = Some(0)


\* the value of the held act of index i under each rule          (eighths)
TotalValue(i) == ActMoralValue(acts[i].act)
TotalNegativeValue(i) ==
    LET a == acts[i].act
        NegativeTerms(p) == { k \in 1..Len(p.actor.consequences) : p.actor.consequences[k] < 0 }
        Weight(p) == IF a.selfInterestScale = None THEN 2
                     ELSE IF p.isDecisionMaker THEN a.selfInterestScale[1]
                     ELSE 2 - a.selfInterestScale[1]
        RECURSIVE Sum(_, _)
        Sum(p, K) == IF K = {} THEN 0
                     ELSE LET k == CHOOSE k \in K : TRUE
                          IN  p.actor.consequences[k] + Sum(p, K \ {k})
        RECURSIVE Total(_)
        Total(n) == IF n = 0 THEN 0
                    ELSE Total(n - 1) + Weight(a.actors[n]) * Sum(a.actors[n], NegativeTerms(a.actors[n]))
    IN  Total(Len(a.actors))

\* i is the first index, in the current order, whose value is >= every value
FirstGreatest(i, V(_)) ==
    /\ \A j \in 1..Len(acts) : V(i) >= V(j)
    /\ \A j \in 1..(i - 1) : \E k \in 1..Len(acts) : V(k) > V(j)

\* C4: on a non-empty selector a best-action query raises nothing and returns
\* the name of the first entry, in the current order, whose value under the
\* rule of the query is >= the value of every held act - the total value for
\* getActWithHighestValue, the total negative value (the weighted sum of the
\* negative terms alone) for getActWithLeastNegativeValue; no held act has a
\* strictly greater value.
C4_BestIsFirstGreatest ==
    /\ (lastCall.op = "getActWithHighestValue" /\ acts # << >>) =>
          /\ lastCall.raised = ""
          /\ \E i \in 1..Len(acts) :
                acts[i].name = lastCall.name /\ FirstGreatest(i, TotalValue)
    /\ (lastCall.op = "getActWithLeastNegativeValue" /\ acts # << >>) =>
          /\ lastCall.raised = ""
          /\ \E i \in 1..Len(acts) :
                acts[i].name = lastCall.name /\ FirstGreatest(i, TotalNegativeValue)

\* held values 10, 25, 25 in this order: the query returned the second entry
C4_Witness ==
    /\ lastCall.op = "getActWithHighestValue"
    /\ Len(acts) = 3
    /\ <<TotalValue(1), TotalValue(2), TotalValue(3)>> = <<80, 200, 200>>
    /\ lastCall.name = acts[2].name

\* C5: on a non-empty selector a tied-list query returns one element for each
\* held entry whose value under its rule equals the greatest value held, the
\* name of that entry, and nothing else; the name the matching best-action
\* query returns is in the list.
C5_ListIsAllGreatest ==
    /\ (lastCall.op = "getListOfActsWithHighestValue" /\ acts # << >>) =>
          LET best == { i \in 1..Len(acts) : \A j \in 1..Len(acts) : TotalValue(i) >= TotalValue(j) }
          IN  /\ lastCall.raised = ""
              /\ Len(lastCall.names) = Cardinality(best)
              /\ { lastCall.names[k] : k \in 1..Len(lastCall.names) } = { acts[i].name : i \in best }
              /\ \E k \in 1..Len(lastCall.names) :
                    lastCall.names[k] = BestName("getActWithHighestValue", MoralValues(acts)).name
    /\ (lastCall.op = "getListOfActsWithLeastNegativeValue" /\ acts # << >>) =>
          LET best == { i \in 1..Len(acts) :
                          \A j \in 1..Len(acts) : TotalNegativeValue(i) >= TotalNegativeValue(j) }
          IN  /\ lastCall.raised = ""
              /\ Len(lastCall.names) = Cardinality(best)
              /\ { lastCall.names[k] : k \in 1..Len(lastCall.names) } = { acts[i].name : i \in best }
              /\ \E k \in 1..Len(lastCall.names) :
                    lastCall.names[k] =
                        BestName("getActWithLeastNegativeValue", NegativeMoralValues(acts)).name

\* held values 10, 25, 25 in some order: the list is the two names of the 25s
C5_Witness ==
    /\ lastCall.op = "getListOfActsWithHighestValue"
    /\ Len(acts) = 3
    /\ \E i \in 1..3 :
          /\ TotalValue(i) = 80
          /\ \A j \in (1..3) \ {i} : TotalValue(j) = 200
          /\ Len(lastCall.names) = 2
          /\ { lastCall.names[1], lastCall.names[2] } = { acts[j].name : j \in (1..3) \ {i} }

\* the four ranking queries
Queries ==
    { "getActWithHighestValue", "getActWithLeastNegativeValue",
      "getListOfActsWithHighestValue", "getListOfActsWithLeastNegativeValue" }

\* the order of the held acts: their names and parties, index by index
Order(list) == [i \in 1..Len(list) |-> <<list[i].name, list[i].act.actors>>]

\* C6: a query changes neither the held acts, their order and scales, nor the
\* selector's scale; a query that follows the same query returns what that one
\* returned; and the order of the held acts changes in addAct alone.
C6_QueriesIdempotent ==
    [][/\ lastCall'.op \in Queries =>
             /\ acts' = acts
             /\ selfInterestScale' = selfInterestScale
             /\ (lastCall.op = lastCall'.op => lastCall' = lastCall)
       /\ Order(acts') # Order(acts) => lastCall'.op = "addAct"]_vars

\* a query answered on a selector where two acts tie for the greatest value
C6_Witness ==
    /\ lastCall.op = "getActWithHighestValue"
    /\ Len(acts) = 3
    /\ \E i, j \in 1..3 :
          /\ i # j
          /\ TotalValue(i) = TotalValue(j)
          /\ \A k \in 1..3 : TotalValue(i) >= TotalValue(k)

\* the held act has no party flagged decision-maker
NoDecisionMaker(a) == \A k \in 1..Len(a.actors) : ~a.actors[k].isDecisionMaker

\* C9: a successful setSelfInterestScale prints exactly one warning for each
\* held act that has no party flagged decision-maker and none for an act that
\* has one, and still stores the scale and gives it to every held act; a
\* refused call, addAct and the queries print no warning.
C9_WarningPerActWithoutMaker ==
    /\ (lastCall.op = "setSelfInterestScale" /\ lastCall.raised = "") =>
          /\ Len(warnings) = Cardinality({ i \in 1..Len(acts) : NoDecisionMaker(acts[i].act) })
          /\ { warnings[k] : k \in 1..Len(warnings) } =
                { acts[i].name : i \in { j \in 1..Len(acts) : NoDecisionMaker(acts[j].act) } }
          /\ selfInterestScale # None
          /\ \A i \in 1..Len(acts) : acts[i].act.selfInterestScale = selfInterestScale
    /\ (lastCall.op # "setSelfInterestScale" \/ lastCall.raised # "") => warnings = << >>

\* a successful call on three acts, two of them without a decision-maker
C9_Witness ==
    /\ lastCall.op = "setSelfInterestScale"
    /\ lastCall.raised = ""
    /\ Len(acts) = 3
    /\ Len(warnings) = 2
    /\ \E i \in 1..3 : ~NoDecisionMaker(acts[i].act)


\* -------------------------------------------------------------- claims: Act

\* the sum of f over the indices in S
SumOver(S, f(_)) ==
    LET RECURSIVE Sum(_)
        Sum(T) == IF T = {} THEN 0
                  ELSE LET k == CHOOSE k \in T : TRUE IN f(k) + Sum(T \ {k})
    IN  Sum(S)

\* the total value of party i of the caller's Act: the sum of its terms
PartyValue(i) ==
    LET c == act[1].actors[i].actor.consequences
        Term(k) == c[k]
    IN  SumOver(1..Len(c), Term)

\* C7: getMoralValue returns the sum over the parties of w * (party total
\* value): w = 1 when the scale is unset, w = scale for a party flagged
\* decision-maker and w = 1 - scale for the others when it is set (values in
\* eighths, weights in halves).  So unset gives the plain sum, scale 1 the sum
\* over the flagged parties, scale 0 the sum over the others, and with no
\* flagged party every party weighs 1 - scale.
C7_WeightedSum ==
    lastCall.op = "Act.getMoralValue" =>
        LET a == act[1]
            P == 1..Len(a.actors)
            Flagged == { i \in P : a.actors[i].isDecisionMaker }
            W(i) == IF a.selfInterestScale = None THEN 2 * PartyValue(i)
                    ELSE IF i \in Flagged THEN a.selfInterestScale[1] * PartyValue(i)
                    ELSE (2 - a.selfInterestScale[1]) * PartyValue(i)
            Plain(i) == 2 * PartyValue(i)
            Others(i) == (2 - a.selfInterestScale[1]) * PartyValue(i)
        IN  /\ lastCall.value = SumOver(P, W)
            /\ a.selfInterestScale = None => lastCall.value = SumOver(P, Plain)
            /\ a.selfInterestScale = Some(2) => lastCall.value = SumOver(Flagged, Plain)
            /\ a.selfInterestScale = Some(0) => lastCall.value = SumOver(P \ Flagged, Plain)
            /\ (a.selfInterestScale # None /\ Flagged = {}) => lastCall.value = SumOver(P, Others)

\* the two parties of the scenario of spec section 8, the pain flagged, under
\* scale 0.5: 0.5 * 90 + 0.5 * (-45) = 22.5
C7_Witness ==
    /\ lastCall.op = "Act.getMoralValue"
    /\ act[1].selfInterestScale = Some(1)
    /\ Len(act[1].actors) = 2
    /\ ~act[1].actors[1].isDecisionMaker
    /\ act[1].actors[2].isDecisionMaker
    /\ PartyValue(1) = 360
    /\ PartyValue(2) = -180
    /\ lastCall.value = 180

\* C10 as the spec states it: the consequences of a constructed Actor hold 1
\* to 3 terms, and no later call changes them.
C10_Immutable ==
    [][(act # << >> /\ act' # << >>) =>
          \A i \in 1..Len(act[1].actors) :
              /\ Len(act[1].actors[i].actor.consequences) \in 1..3
              /\ i <= Len(act'[1].actors)
              /\ act'[1].actors[i].actor.consequences = act[1].actors[i].actor.consequences]_vars

\* s is the beginning of t
IsPrefix(s, t) == Len(s) <= Len(t) /\ SubSeq(t, 1, Len(s)) = s

\* C10 (amended): the constructor gives an Actor 1 to 3 terms, and its
\* consequences are append-only: no call changes or removes a term, and no
\* call other than a further addConsequence on that Actor, which appends 1 to
\* 3 terms, changes the sequence at all - not createActor of further parties,
\* not setSelfInterestScale, not a value query - so the Actor's total value
\* and total negative value change with addConsequence alone.
C10_AppendOnly ==
    [][(act # << >> /\ act' # << >>) =>
          /\ \A i \in 1..Len(act[1].actors) :
                LET before == act[1].actors[i].actor.consequences
                    after == act'[1].actors[i].actor.consequences
                IN  /\ i <= Len(act'[1].actors)
                    /\ IsPrefix(before, after)
                    /\ Len(after) - Len(before) \in {0, 1, 2, 3}
                    /\ lastCall'.op # "Actor.addConsequence" =>
                          /\ after = before
                          /\ ActorMoralValue(act'[1].actors[i].actor) =
                                ActorMoralValue(act[1].actors[i].actor)
                          /\ ActorNegativeMoralValue(act'[1].actors[i].actor) =
                                ActorNegativeMoralValue(act[1].actors[i].actor)
          /\ \A i \in (Len(act[1].actors) + 1)..Len(act'[1].actors) :
                /\ lastCall'.op = "Act.createActor"
                /\ Len(act'[1].actors[i].actor.consequences) \in 1..3]_vars

\* a second party was created next to one that holds three terms
C10_Witness ==
    /\ lastCall.op = "Act.createActor"
    /\ Len(act[1].actors) = 2
    /\ Len(act[1].actors[1].actor.consequences) = 3

\* ------------------------------------------------------------ claims: Actor

\* decay(n): 1 for n = 0, n^-0.1 otherwise, in halves
Decay(n) == CASE n = 0 -> 2 [] n = 1 -> 2 [] n = 1024 -> 1

\* the sequence of spec 4.1 for the arguments a
Reference(a) ==
    LET sign == IF a.isPleasure THEN 1 ELSE -1
        second == IF a.isPleasure THEN Decay(a.f_propinquity) ELSE Decay(a.p_propinquity)
        first == sign * a.certainty * a.intensity * a.duration * Decay(a.propinquity) * a.extent
        f_term == sign * a.fecundity * a.f_intensity * a.f_duration * second * a.f_extent
        p_term == (-sign) * a.purity * a.p_intensity * a.p_duration * second * a.p_extent
    IN  << first >>
        \o (IF a.fecundity # 0 THEN << f_term >> ELSE << >>)
        \o (IF a.purity # 0 THEN << p_term >> ELSE << >>)

C11_ScaleConsistent ==
    /\ selfInterestScale = None \/ (selfInterestScale[1] >= 0 /\ selfInterestScale[1] <= 2)
    /\ \A i \in 1..Len(acts) : acts[i].act.selfInterestScale = selfInterestScale

\* three acts were added, the last one after setSelfInterestScale(1), and a
\* later call was refused
C11_Witness ==
    /\ lastCall.op = "setSelfInterestScale"
    /\ lastCall.raised = "ValueError"
    /\ Len(acts) = 3
    /\ selfInterestScale = Some(2)
    /\ \A i \in 1..3 : acts[i].act.selfInterestScale = Some(2)

====
